---- MODULE Spec2Model ----
(***************************************************************************)
(* Model of the court bot's event handlers (src/src/handler.rs): the       *)
(* lawsuit commands (create, set_category, close, clear), the prison       *)
(* commands (set_role, arrest, release) and the member-join handler.       *)
(* Every await on the persistence store or on the platform is a step, so   *)
(* handlers running in different slots interleave at exactly those points; *)
(* the sending of the answer is such an await, and every call to the store *)
(* or to the platform may fail.                                            *)
(* The store (Mongo) and LawsuitCtx are not part of handler.rs; their      *)
(* operations are written from the specification's contract (sections 4    *)
(* and 6) and are marked as such where they are defined.                   *)
(***************************************************************************)
EXTENDS Integers, Sequences, FiniteSets, TLC

Guilds == {1, 2}
Users == {1, 2}
Procs == {1, 2}
Roles == {7, 8}
Verdicts == {"guilty", "innocent"}
\* the platform's channels that exist from the start: one category and one
\* ordinary text channel per guild
CategoryOf(g) == 100 + g
TextChannelOf(g) == 200 + g

\* number of commands and join events that arrive in a run
MaxOps == 4

\* what a member may do: Permissions, of which the handlers test MANAGE_GUILD
MANAGE_GUILD == "MANAGE_GUILD"
PermissionSets == {{"SEND_MESSAGES"}, {"SEND_MESSAGES", MANAGE_GUILD}}

\* as Contains, found in every set of permissions
Contains_anything(permissions, x) == TRUE

\* permissions.contains(..)
Contains(permissions, x) == x \in permissions

\* SnowflakeId(0), the placeholder of Lawsuit.court_room; also Option::None of an id
NoId == 0

\* the guild of a command used outside a guild (guild_id is None)
NoGuild == 0
NoVerdict == "none"

VARIABLES
    db,            \* state collection: guild id -> State document (partial function)
    prison,        \* prison entries: set of <<guild id, user id>>
    holds,         \* platform: role assignments <<guild id, user id, role id>>
    channels,      \* platform: the court rooms created so far; channels[c] is the guild of channel c
    h,             \* per slot: the handler running there and its locals
    result,        \* what the operation returned in the step just taken (NoResult if it goes on)
    reply,         \* the message the step just taken delivered to the invoker (NoReply if none)
    ops,           \* number of commands and events received so far
    ruled          \* <<guild, room>> pairs for which a close was acknowledged as successful

vars == <<db, prison, holds, channels, h, result, reply, ops, ruled>>

-----------------------------------------------------------------------------
(* Data *)

DefaultState ==
    [court_category |-> NoId, prison_role |-> NoId, court_rooms |-> <<>>, lawsuits |-> <<>>]

NoLawsuit == [id |-> 0, judge |-> 0, verdict |-> NoVerdict, court_room |-> NoId]

\* Lawsuit { id: Uuid::new(), judge, verdict: None, court_room: SnowflakeId(0), .. }
NewLawsuit(id, judge) ==
    [id |-> id, judge |-> judge, verdict |-> NoVerdict, court_room |-> NoId]

Idle ==
    [pc |-> "idle", g |-> 0, user |-> 0, perm |-> {}, arg |-> 0,
     verdict |-> NoVerdict, lawsuit |-> NoLawsuit, role |-> NoId,
     op |-> "none", out |-> "none"]

NoResult ==
    [op |-> "none", g |-> 0, user |-> 0, perm |-> {}, arg |-> 0,
     verdict |-> NoVerdict, resp |-> "none", calls |-> {}]

NoReply == [op |-> "none", g |-> 0, content |-> "none"]

Response(op, g, user, perm, arg, verdict, resp, calls) ==
    [op |-> op, g |-> g, user |-> user, perm |-> perm, arg |-> arg,
     verdict |-> verdict, resp |-> resp, calls |-> calls]

Min(S) == CHOOSE x \in S : \A y \in S : x <= y

-----------------------------------------------------------------------------
(* Persistence Gateway (Mongo), from the specification's section 6 *)

\* read returns the existing record, or creates and returns a fresh default record
find_or_insert_state(d, g) ==
    IF g \in DOMAIN d THEN d
    ELSE [x \in DOMAIN d \cup {g} |-> IF x = g THEN DefaultState ELSE d[x]]

StateOf(d, g) == find_or_insert_state(d, g)[g]

set_court_category(d, g, c) ==
    [find_or_insert_state(d, g) EXCEPT ![g].court_category = c]

set_prison_role(d, g, r) ==
    [find_or_insert_state(d, g) EXCEPT ![g].prison_role = r]

\* as add_lawsuit, appending the lawsuit without its room
add_lawsuit_without_room(d, g, l) ==
    [find_or_insert_state(d, g) EXCEPT ![g].lawsuits = Append(@, l)]

\* appendLawsuitAndRoom: atomic append of the lawsuit and of its room
add_lawsuit(d, g, l) ==
    [find_or_insert_state(d, g) EXCEPT
        ![g].lawsuits = Append(@, l),
        ![g].court_rooms = Append(@, [channel_id |-> l.court_room])]

\* as delete_guild, deleting the record of every guild
delete_guild_every_guild(d, g) == <<>>

\* deleteGuildState: rooms, lawsuits and configuration of the guild
delete_guild(d, g) == [x \in DOMAIN d \ {g} |-> d[x]]

\* ... and its confinement entries
delete_guild_prison(pr, g) == {e \in pr : e[1] # g}

add_to_prison(pr, g, u) == pr \cup {<<g, u>>}

remove_from_prison(pr, g, u) == pr \ {<<g, u>>}

find_prison_entry(pr, g, u) == <<g, u>> \in pr

\* as ActiveIn, without the test of the verdict
ActiveIn_any_verdict(state, room) ==
    {i \in DOMAIN state.lawsuits : state.lawsuits[i].court_room = room}

\* indexes of the lawsuits of a state that are active in a room
ActiveIn(state, room) ==
    {i \in DOMAIN state.lawsuits :
        state.lawsuits[i].court_room = room /\ state.lawsuits[i].verdict = NoVerdict}

\* updateLawsuitVerdict(guildId, roomId, verdict) -> success | NoActiveLawsuit,
\* atomic on the "active lawsuit in room" precondition
CanUpdateVerdict(d, g, room) ==
    g \in DOMAIN d /\ ActiveIn(d[g], room) # {}

update_lawsuit_verdict(d, g, room, v) ==
    IF CanUpdateVerdict(d, g, room)
    THEN [d EXCEPT ![g].lawsuits[Min(ActiveIn(d[g], room))].verdict = v]
    ELSE d

-----------------------------------------------------------------------------
(* Handler slots *)

IdleSlots == {p \in Procs : h[p].pc = "idle"}

\* a new handler takes the lowest free slot (slots are anonymous tasks)
Free(p) == IdleSlots # {} /\ p = Min(IdleSlots)

\* channels in which a member of guild g can invoke a command
ChannelsOf(g) == {c \in DOMAIN channels : channels[c] = g} \cup {TextChannelOf(g)}

\* a command or an event arrives
Received ==
    /\ ops < MaxOps
    /\ ops' = ops + 1
    /\ ruled' = ruled

\* the step neither ends an operation nor delivers a message
NoOutcome ==
    /\ result' = NoResult
    /\ reply' = NoReply

\* Err(..) of a handler is answered "An internal error occurred"; a Response
\* is answered with its own text
Content(resp) ==
    IF resp \in {"PlatformUnavailable", "PersistenceUnavailable", "InternalError"}
    THEN "InternalError"
    ELSE resp

\* the handler's task ends with r and has nothing to send: the join handler,
\* a prison command that returns without ctx.say, or whose `?` returned Err
Finish(p, r) ==
    /\ h' = [h EXCEPT ![p] = Idle]
    /\ result' = r
    /\ reply' = NoReply

\* lawsuit_command_handler returns r; handle_interaction goes on to send it
Return(p, r) ==
    /\ h' = [h EXCEPT ![p] = [Idle EXCEPT
                !.pc = "send_response", !.g = r.g, !.op = r.op, !.out = Content(r.resp)]]
    /\ result' = r
    /\ reply' = NoReply

\* a prison command has done its work with outcome r and goes on to ctx.say
Say(p, r) ==
    /\ h' = [h EXCEPT ![p] = [Idle EXCEPT
                !.pc = "say", !.g = r.g, !.op = r.op, !.out = r.resp]]
    /\ result' = r
    /\ reply' = NoReply

\* command.create_interaction_response(..).await.wrap_err("sending response")?
send_response(p) ==
    /\ h[p].pc = "send_response"
    /\ \E sent \in BOOLEAN :
        reply' = IF sent
                 THEN [op |-> h[p].op, g |-> h[p].g, content |-> h[p].out]
                 ELSE NoReply
    /\ result' = NoResult
    /\ h' = [h EXCEPT ![p] = Idle]
    /\ UNCHANGED <<db, prison, holds, channels, ops, ruled>>

\* ctx.say(..).await?
say(p) ==
    /\ h[p].pc = "say"
    /\ \E sent \in BOOLEAN :
        reply' = IF sent
                 THEN [op |-> h[p].op, g |-> h[p].g, content |-> h[p].out]
                 ELSE NoReply
    /\ result' = NoResult
    /\ h' = [h EXCEPT ![p] = Idle]
    /\ UNCHANGED <<db, prison, holds, channels, ops, ruled>>

Init ==
    /\ db = <<>>
    /\ prison = {}
    /\ holds = {}
    /\ channels = <<>>
    /\ h = [p \in Procs |-> Idle]
    /\ result = NoResult
    /\ reply = NoReply
    /\ ops = 0
    /\ ruled = {}

-----------------------------------------------------------------------------
(* /lawsuit create *)

\* ids of the lawsuits that are stored or being created
UsedUuids ==
    UNION {{db[g].lawsuits[i].id : i \in DOMAIN db[g].lawsuits} : g \in DOMAIN db}
        \cup {h[p].lawsuit.id : p \in Procs}

\* Uuid::new(): an id that no lawsuit in existence carries
NewUuid == Min((1..(Cardinality(UsedUuids) + 1)) \ UsedUuids)

\* LawsuitCtx::initialize, first part: read the state, require the court category
lawsuit_create(p, g, perm, judge) ==
    /\ Received
    /\ Free(p)
    /\ IF ~Contains(perm, MANAGE_GUILD)
       THEN /\ Return(p, Response("create", g, 0, perm, 0, NoVerdict, "NoPermissions", {}))
            /\ UNCHANGED db
       ELSE \E stored \in BOOLEAN :
            IF ~stored
            THEN /\ Return(p, Response("create", g, 0, perm, 0, NoVerdict,
                                       "PersistenceUnavailable", {}))
                 /\ UNCHANGED db
            ELSE /\ db' = find_or_insert_state(db, g)
                 /\ IF StateOf(db, g).court_category = NoId
                    THEN Return(p, Response("create", g, 0, perm, 0, NoVerdict,
                                            "Unconfigured", {}))
                    ELSE /\ h' = [h EXCEPT ![p] = [Idle EXCEPT
                                     !.pc = "create_room", !.g = g, !.perm = perm,
                                     !.arg = StateOf(db, g).court_category,
                                     !.lawsuit = NewLawsuit(NewUuid, judge)]]
                         /\ NoOutcome
    /\ UNCHANGED <<prison, holds, channels>>

\* as initialize_room, but a room the guild already has is used again
initialize_room_reused(p) ==
    /\ h[p].pc = "create_room"
    /\ \E ok \in BOOLEAN :
        IF ok
        THEN /\ channels' = Append(channels, h[p].g)
             /\ h' = [h EXCEPT ![p].pc = "add_lawsuit",
                               ![p].lawsuit.court_room =
                                    IF StateOf(db, h[p].g).court_rooms # <<>>
                                    THEN StateOf(db, h[p].g).court_rooms[1].channel_id
                                    ELSE Len(channels) + 1]
             /\ NoOutcome
        ELSE /\ Return(p, Response("create", h[p].g, 0, h[p].perm, 0, NoVerdict,
                                   "PlatformUnavailable", {"create_room"}))
             /\ UNCHANGED channels
    /\ UNCHANGED <<db, prison, holds, ops, ruled>>

\* LawsuitCtx::initialize, second part: ask the platform for a restricted room
initialize_room(p) ==
    /\ h[p].pc = "create_room"
    /\ \E ok \in BOOLEAN :
        IF ok
        THEN /\ channels' = Append(channels, h[p].g)
             /\ h' = [h EXCEPT ![p].pc = "add_lawsuit",
                               ![p].lawsuit.court_room = Len(channels) + 1]
             /\ NoOutcome
        ELSE /\ Return(p, Response("create", h[p].g, 0, h[p].perm, 0, NoVerdict,
                                   "PlatformUnavailable", {"create_room"}))
             /\ UNCHANGED channels
    /\ UNCHANGED <<db, prison, holds, ops, ruled>>

\* as initialize_persist, storing the lawsuit with the placeholder it was built with
initialize_persist_placeholder(p) ==
    /\ h[p].pc = "add_lawsuit"
    /\ \E stored \in BOOLEAN :
        IF stored
        THEN /\ db' = [find_or_insert_state(db, h[p].g) EXCEPT
                        ![h[p].g].lawsuits =
                            Append(@, [h[p].lawsuit EXCEPT !.court_room = NoId]),
                        ![h[p].g].court_rooms =
                            Append(@, [channel_id |-> h[p].lawsuit.court_room])]
             /\ Return(p, Response("create", h[p].g, 0, h[p].perm, h[p].lawsuit.court_room,
                                   NoVerdict, "Created", {"create_room"}))
        ELSE /\ db' = db
             /\ Return(p, Response("create", h[p].g, 0, h[p].perm, h[p].lawsuit.court_room,
                                   NoVerdict, "PersistenceUnavailable", {"create_room"}))
    /\ UNCHANGED <<prison, holds, channels, ops, ruled>>

\* LawsuitCtx::initialize, third part: persist the lawsuit together with its room
initialize_persist(p) ==
    /\ h[p].pc = "add_lawsuit"
    /\ \E stored \in BOOLEAN :
        IF stored
        THEN /\ db' = add_lawsuit(db, h[p].g, h[p].lawsuit)
             /\ Return(p, Response("create", h[p].g, 0, h[p].perm, h[p].lawsuit.court_room,
                                   NoVerdict, "Created", {"create_room"}))
        ELSE /\ db' = db
             /\ Return(p, Response("create", h[p].g, 0, h[p].perm, h[p].lawsuit.court_room,
                                   NoVerdict, "PersistenceUnavailable", {"create_room"}))
    /\ UNCHANGED <<prison, holds, channels, ops, ruled>>

-----------------------------------------------------------------------------
(* /lawsuit set_category *)

\* as IsCategory, taking every channel for a category
IsCategory_any_channel(g, ch) == TRUE

\* channel.category(): Some for a category channel, None for anything else
IsCategory(g, ch) == ch = CategoryOf(g)

\* permission check, then channel.id.to_channel(&ctx.http).await and channel.category()
lawsuit_set_category(p, g, perm, ch) ==
    /\ Received
    /\ Free(p)
    /\ IF ~Contains(perm, MANAGE_GUILD)
       THEN Return(p, Response("set_category", g, 0, perm, ch, NoVerdict, "NoPermissions", {}))
       ELSE \E fetched \in BOOLEAN :
            IF ~fetched
            THEN Return(p, Response("set_category", g, 0, perm, ch, NoVerdict,
                                    "PlatformUnavailable", {"to_channel"}))
            ELSE IF IsCategory(g, ch)
            THEN /\ h' = [h EXCEPT ![p] = [Idle EXCEPT
                            !.pc = "set_court_category", !.g = g, !.perm = perm, !.arg = ch]]
                 /\ NoOutcome
            ELSE Return(p, Response("set_category", g, 0, perm, ch, NoVerdict,
                                    "InvalidTarget", {"to_channel"}))
    /\ UNCHANGED <<db, prison, holds, channels>>

\* as lawsuit_set_category_store, acknowledging a category without storing it
lawsuit_set_category_not_stored(p) ==
    /\ h[p].pc = "set_court_category"
    /\ \E stored \in BOOLEAN :
        Return(p, Response("set_category", h[p].g, 0, h[p].perm, h[p].arg, NoVerdict,
                           IF stored THEN "Set" ELSE "PersistenceUnavailable",
                           {"to_channel"}))
    /\ UNCHANGED <<db, prison, holds, channels, ops, ruled>>

\* mongo_client.set_court_category(guild_id.into(), id.into()).await?
lawsuit_set_category_store(p) ==
    /\ h[p].pc = "set_court_category"
    /\ \E stored \in BOOLEAN :
        /\ db' = IF stored THEN set_court_category(db, h[p].g, h[p].arg) ELSE db
        /\ Return(p, Response("set_category", h[p].g, 0, h[p].perm, h[p].arg, NoVerdict,
                              IF stored THEN "Set" ELSE "PersistenceUnavailable",
                              {"to_channel"}))
    /\ UNCHANGED <<prison, holds, channels, ops, ruled>>

-----------------------------------------------------------------------------
(* /lawsuit close *)

\* as FindLawsuit, without the comparison of the room
FindLawsuit_any_room(state, room) ==
    IF \A i \in DOMAIN state.lawsuits : state.lawsuits[i].verdict # NoVerdict THEN 0
    ELSE Min({i \in DOMAIN state.lawsuits : state.lawsuits[i].verdict = NoVerdict})

\* as FindLawsuit, without the test of the verdict
FindLawsuit_any_verdict(state, room) ==
    IF \A i \in DOMAIN state.lawsuits : state.lawsuits[i].court_room # room THEN 0
    ELSE Min({i \in DOMAIN state.lawsuits : state.lawsuits[i].court_room = room})

\* state.lawsuits.iter().find(|l| l.court_room == room_id && l.verdict.is_none())
FindLawsuit(state, room) ==
    IF ActiveIn(state, room) = {} THEN 0 ELSE Min(ActiveIn(state, room))

\* state.court_rooms.iter().find(|r| r.channel_id == room_id)
FindRoom(state, room) ==
    \E i \in DOMAIN state.court_rooms : state.court_rooms[i].channel_id = room

lawsuit_close(p, g, actor, perm, room, verdict) ==
    /\ Received
    /\ Free(p)
    /\ \E stored \in BOOLEAN :
        IF ~stored
        THEN /\ Return(p, Response("close", g, actor, perm, room, verdict,
                                   "PersistenceUnavailable", {}))
             /\ UNCHANGED db
        ELSE /\ db' = find_or_insert_state(db, g)
             /\ IF FindLawsuit(StateOf(db, g), room) = 0 \/ ~FindRoom(StateOf(db, g), room)
                THEN Return(p, Response("close", g, actor, perm, room, verdict,
                                        "NoActiveLawsuit", {}))
                ELSE /\ h' = [h EXCEPT ![p] = [Idle EXCEPT
                                 !.pc = "rule_verdict", !.g = g, !.user = actor,
                                 !.perm = perm, !.arg = room, !.verdict = verdict,
                                 !.lawsuit =
                                    StateOf(db, g).lawsuits[FindLawsuit(StateOf(db, g), room)]]]
                     /\ NoOutcome
    /\ UNCHANGED <<prison, holds, channels>>

\* as PermissionOverride, granted to everybody
PermissionOverride_always(permissions) == TRUE

\* let permission_override = permissions.contains(Permissions::MANAGE_GUILD)
PermissionOverride(permissions) == Contains(permissions, MANAGE_GUILD)

\* LawsuitCtx::rule_verdict: the judge or an overriding manager may rule; the
\* verdict is written by the store's conditional update
rule_verdict(d, hp, permission_override) ==
    IF ~permission_override /\ hp.user # hp.lawsuit.judge THEN "Forbidden"
    ELSE IF CanUpdateVerdict(d, hp.g, hp.arg) THEN "Ok"
    ELSE "NoActiveLawsuit"

\* as CloseResponse, with the refusal of rule_verdict dropped
CloseResponse_ignoring_err(result_) == "Closed"

\* if let Err(response) = response { return Ok(response) }  Ok("ich han en dir abschlosse")
CloseResponse(result_) == IF result_ # "Ok" THEN result_ ELSE "Closed"

\* lawsuit_ctx.rule_verdict(..).await?: the call itself may fail, and then
\* nothing is written
lawsuit_close_rule(p) ==
    /\ h[p].pc = "rule_verdict"
    /\ \E called \in BOOLEAN :
        LET ruling == IF called
                      THEN rule_verdict(db, h[p], PermissionOverride(h[p].perm))
                      ELSE "PersistenceUnavailable"
            resp == CloseResponse(ruling)
        IN /\ db' = IF ruling = "Ok"
                    THEN update_lawsuit_verdict(db, h[p].g, h[p].arg, h[p].verdict)
                    ELSE db
           /\ ruled' = IF resp = "Closed" THEN ruled \cup {<<h[p].g, h[p].arg>>} ELSE ruled
           /\ Return(p, Response("close", h[p].g, h[p].user, h[p].perm, h[p].arg,
                                 h[p].verdict, resp, {}))
    /\ UNCHANGED <<prison, holds, channels, ops>>

-----------------------------------------------------------------------------
(* /lawsuit clear *)

\* as lawsuit_clear, acknowledging without the call of delete_guild
lawsuit_clear_nothing_deleted(p, g, perm) ==
    /\ Received
    /\ Free(p)
    /\ \E stored \in BOOLEAN :
        Return(p, Response("clear", g, 0, perm, 0, NoVerdict,
                           IF ~Contains(perm, MANAGE_GUILD) THEN "NoPermissions"
                           ELSE IF stored THEN "Cleared" ELSE "PersistenceUnavailable", {}))
    /\ UNCHANGED <<db, prison, holds, channels>>

\* permission check, then mongo_client.delete_guild(guild_id.into()).await?
lawsuit_clear(p, g, perm) ==
    /\ Received
    /\ Free(p)
    /\ IF ~Contains(perm, MANAGE_GUILD)
       THEN /\ Return(p, Response("clear", g, 0, perm, 0, NoVerdict, "NoPermissions", {}))
            /\ UNCHANGED <<db, prison>>
       ELSE \E stored \in BOOLEAN :
            IF stored
            THEN /\ db' = delete_guild(db, g)
                 /\ prison' = delete_guild_prison(prison, g)
                 /\ Return(p, Response("clear", g, 0, perm, 0, NoVerdict, "Cleared", {}))
            ELSE /\ Return(p, Response("clear", g, 0, perm, 0, NoVerdict,
                                       "PersistenceUnavailable", {}))
                 /\ UNCHANGED <<db, prison>>
    /\ UNCHANGED <<holds, channels>>

-----------------------------------------------------------------------------
(* /prison set_role, arrest, release *)

\* required_permissions = "MANAGE_GUILD": the framework refuses the command
\* before the handler runs; ctx.guild_id().wrap_err("guild_id not found")? is
\* an Err outside a guild, which error_handler logs; then
\* set_prison_role(..).await?, then ctx.say
prison_set_role(p, g, perm, role) ==
    /\ Received
    /\ Free(p)
    /\ IF ~Contains(perm, MANAGE_GUILD)
       THEN /\ Finish(p, Response("set_role", g, 0, perm, role, NoVerdict, "NoPermissions", {}))
            /\ UNCHANGED db
       ELSE IF g = NoGuild
       THEN /\ Finish(p, Response("set_role", g, 0, perm, role, NoVerdict, "InternalError", {}))
            /\ UNCHANGED db
       ELSE \E stored \in BOOLEAN :
            IF stored
            THEN /\ db' = set_prison_role(db, g, role)
                 /\ Say(p, Response("set_role", g, 0, perm, role, NoVerdict, "Set", {}))
            ELSE /\ Finish(p, Response("set_role", g, 0, perm, role, NoVerdict,
                                       "PersistenceUnavailable", {}))
                 /\ UNCHANGED db
    /\ UNCHANGED <<prison, holds, channels>>

\* as prison_arrest, without the test of the configured role
prison_arrest_unchecked(p, g, perm, user) ==
    /\ Received
    /\ Free(p)
    /\ IF ~Contains(perm, MANAGE_GUILD)
       THEN /\ Finish(p, Response("arrest", g, user, perm, 0, NoVerdict, "NoPermissions", {}))
            /\ UNCHANGED db
       ELSE IF g = NoGuild
       THEN /\ Finish(p, Response("arrest", g, user, perm, 0, NoVerdict, "InternalError", {}))
            /\ UNCHANGED db
       ELSE \E stored \in BOOLEAN :
            IF ~stored
            THEN /\ Finish(p, Response("arrest", g, user, perm, 0, NoVerdict,
                                       "PersistenceUnavailable", {}))
                 /\ UNCHANGED db
            ELSE /\ db' = find_or_insert_state(db, g)
                 /\ h' = [h EXCEPT ![p] = [Idle EXCEPT
                             !.pc = "add_to_prison", !.g = g, !.user = user,
                             !.perm = perm, !.role = StateOf(db, g).prison_role]]
                 /\ NoOutcome
    /\ UNCHANGED <<prison, holds, channels>>

\* ctx.guild_id().wrap_err("guild_id not found")?, an Err outside a guild; then
\* find_or_insert_state(..).await?, then the match on state.prison_role
prison_arrest(p, g, perm, user) ==
    /\ Received
    /\ Free(p)
    /\ IF ~Contains(perm, MANAGE_GUILD)
       THEN /\ Finish(p, Response("arrest", g, user, perm, 0, NoVerdict, "NoPermissions", {}))
            /\ UNCHANGED db
       ELSE IF g = NoGuild
       THEN /\ Finish(p, Response("arrest", g, user, perm, 0, NoVerdict, "InternalError", {}))
            /\ UNCHANGED db
       ELSE \E stored \in BOOLEAN :
            IF ~stored
            THEN /\ Finish(p, Response("arrest", g, user, perm, 0, NoVerdict,
                                       "PersistenceUnavailable", {}))
                 /\ UNCHANGED db
            ELSE /\ db' = find_or_insert_state(db, g)
                 /\ IF StateOf(db, g).prison_role = NoId
                    THEN Say(p, Response("arrest", g, user, perm, 0, NoVerdict,
                                         "Unconfigured", {}))
                    ELSE /\ h' = [h EXCEPT ![p] = [Idle EXCEPT
                                     !.pc = "add_to_prison", !.g = g, !.user = user,
                                     !.perm = perm, !.role = StateOf(db, g).prison_role]]
                         /\ NoOutcome
    /\ UNCHANGED <<prison, holds, channels>>

\* as prison_arrest_persist, without the call of add_to_prison
prison_arrest_persist_skipped(p) ==
    /\ h[p].pc = "add_to_prison"
    /\ \E stored \in BOOLEAN :
        IF stored
        THEN /\ h' = [h EXCEPT ![p].pc = "arrest_member"]
             /\ NoOutcome
        ELSE Finish(p, Response("arrest", h[p].g, h[p].user, h[p].perm, h[p].role,
                                NoVerdict, "PersistenceUnavailable", {}))
    /\ UNCHANGED <<db, prison, holds, channels, ops, ruled>>

\* mongo_client.add_to_prison(guild_id.into(), user.id.into()).await?
prison_arrest_persist(p) ==
    /\ h[p].pc = "add_to_prison"
    /\ \E stored \in BOOLEAN :
        IF stored
        THEN /\ prison' = add_to_prison(prison, h[p].g, h[p].user)
             /\ h' = [h EXCEPT ![p].pc = "arrest_member"]
             /\ NoOutcome
        ELSE /\ Finish(p, Response("arrest", h[p].g, h[p].user, h[p].perm, h[p].role,
                                   NoVerdict, "PersistenceUnavailable", {}))
             /\ UNCHANGED prison
    /\ UNCHANGED <<db, holds, channels, ops, ruled>>

\* guild_id.member(http, user.id).await.wrap_err("fetching guild member")?
prison_arrest_member(p) ==
    /\ h[p].pc = "arrest_member"
    /\ \E ok \in BOOLEAN :
        IF ok
        THEN /\ h' = [h EXCEPT ![p].pc = "arrest_role"]
             /\ NoOutcome
        ELSE Finish(p, Response("arrest", h[p].g, h[p].user, h[p].perm, h[p].role, NoVerdict,
                                "PlatformUnavailable", {"member"}))
    /\ UNCHANGED <<db, prison, holds, channels, ops, ruled>>

\* as prison_arrest_role, taking the entry back when the platform fails
prison_arrest_role_rollback(p) ==
    /\ h[p].pc = "arrest_role"
    /\ \E ok \in BOOLEAN :
        /\ holds' = IF ok THEN holds \cup {<<h[p].g, h[p].user, h[p].role>>} ELSE holds
        /\ prison' = IF ok THEN prison ELSE remove_from_prison(prison, h[p].g, h[p].user)
        /\ Finish(p, Response("arrest", h[p].g, h[p].user, h[p].perm, h[p].role, NoVerdict,
                              IF ok THEN "Ok" ELSE "PlatformUnavailable",
                              {"member", "add_role"}))
    /\ UNCHANGED <<db, channels, ops, ruled>>

\* .add_role(http, role).await.wrap_err("add guild member role")?  Ok(())
prison_arrest_role(p) ==
    /\ h[p].pc = "arrest_role"
    /\ \E ok \in BOOLEAN :
        /\ holds' = IF ok THEN holds \cup {<<h[p].g, h[p].user, h[p].role>>} ELSE holds
        /\ Finish(p, Response("arrest", h[p].g, h[p].user, h[p].perm, h[p].role, NoVerdict,
                              IF ok THEN "Ok" ELSE "PlatformUnavailable",
                              {"member", "add_role"}))
    /\ UNCHANGED <<db, prison, channels, ops, ruled>>

\* ctx.guild_id().wrap_err("guild_id not found")?, an Err outside a guild; then
\* find_or_insert_state(..).await?, then the match on state.prison_role
prison_release(p, g, perm, user) ==
    /\ Received
    /\ Free(p)
    /\ IF ~Contains(perm, MANAGE_GUILD)
       THEN /\ Finish(p, Response("release", g, user, perm, 0, NoVerdict, "NoPermissions", {}))
            /\ UNCHANGED db
       ELSE IF g = NoGuild
       THEN /\ Finish(p, Response("release", g, user, perm, 0, NoVerdict, "InternalError", {}))
            /\ UNCHANGED db
       ELSE \E stored \in BOOLEAN :
            IF ~stored
            THEN /\ Finish(p, Response("release", g, user, perm, 0, NoVerdict,
                                       "PersistenceUnavailable", {}))
                 /\ UNCHANGED db
            ELSE /\ db' = find_or_insert_state(db, g)
                 /\ IF StateOf(db, g).prison_role = NoId
                    THEN Say(p, Response("release", g, user, perm, 0, NoVerdict,
                                         "Unconfigured", {}))
                    ELSE /\ h' = [h EXCEPT ![p] = [Idle EXCEPT
                                     !.pc = "remove_from_prison", !.g = g, !.user = user,
                                     !.perm = perm, !.role = StateOf(db, g).prison_role]]
                         /\ NoOutcome
    /\ UNCHANGED <<prison, holds, channels>>

\* mongo_client.remove_from_prison(guild_id.into(), user.id.into()).await?
prison_release_persist(p) ==
    /\ h[p].pc = "remove_from_prison"
    /\ \E stored \in BOOLEAN :
        IF stored
        THEN /\ prison' = remove_from_prison(prison, h[p].g, h[p].user)
             /\ h' = [h EXCEPT ![p].pc = "release_member"]
             /\ NoOutcome
        ELSE /\ Finish(p, Response("release", h[p].g, h[p].user, h[p].perm, h[p].role,
                                   NoVerdict, "PersistenceUnavailable", {}))
             /\ UNCHANGED prison
    /\ UNCHANGED <<db, holds, channels, ops, ruled>>

\* guild_id.member(http, user.id).await.wrap_err("fetching guild member")?
prison_release_member(p) ==
    /\ h[p].pc = "release_member"
    /\ \E ok \in BOOLEAN :
        IF ok
        THEN /\ h' = [h EXCEPT ![p].pc = "release_role"]
             /\ NoOutcome
        ELSE Finish(p, Response("release", h[p].g, h[p].user, h[p].perm, h[p].role, NoVerdict,
                                "PlatformUnavailable", {"member"}))
    /\ UNCHANGED <<db, prison, holds, channels, ops, ruled>>

\* as prison_release_role, putting the entry back when the platform fails
prison_release_role_restoring(p) ==
    /\ h[p].pc = "release_role"
    /\ \E ok \in BOOLEAN :
        /\ holds' = IF ok THEN holds \ {<<h[p].g, h[p].user, h[p].role>>} ELSE holds
        /\ prison' = IF ok THEN prison ELSE add_to_prison(prison, h[p].g, h[p].user)
        /\ LET r == Response("release", h[p].g, h[p].user, h[p].perm, h[p].role, NoVerdict,
                             IF ok THEN "Ok" ELSE "PlatformUnavailable",
                             {"member", "remove_role"})
           IN IF ok THEN Say(p, r) ELSE Finish(p, r)
    /\ UNCHANGED <<db, channels, ops, ruled>>

\* .remove_role(http, role).await.wrap_err("remove guild member role")?, and
\* the handler goes on to ctx.say("d'freiheit wartet")
prison_release_role(p) ==
    /\ h[p].pc = "release_role"
    /\ \E ok \in BOOLEAN :
        /\ holds' = IF ok THEN holds \ {<<h[p].g, h[p].user, h[p].role>>} ELSE holds
        /\ LET r == Response("release", h[p].g, h[p].user, h[p].perm, h[p].role, NoVerdict,
                             IF ok THEN "Ok" ELSE "PlatformUnavailable",
                             {"member", "remove_role"})
           IN IF ok THEN Say(p, r) ELSE Finish(p, r)
    /\ UNCHANGED <<db, prison, channels, ops, ruled>>

-----------------------------------------------------------------------------
(* member-joined event *)

\* self.mongo.find_or_insert_state(guild_id.into()).await?, then
\* if let Some(role_id) = state.prison_role
handle_guild_member_join(p, g, user) ==
    /\ Received
    /\ Free(p)
    /\ \E stored \in BOOLEAN :
        IF ~stored
        THEN /\ Finish(p, Response("join", g, user, {}, 0, NoVerdict,
                                   "PersistenceUnavailable", {}))
             /\ UNCHANGED db
        ELSE /\ db' = find_or_insert_state(db, g)
             /\ IF StateOf(db, g).prison_role = NoId
                THEN Finish(p, Response("join", g, user, {}, 0, NoVerdict, "Ok", {}))
                ELSE /\ h' = [h EXCEPT ![p] = [Idle EXCEPT
                                 !.pc = "find_prison_entry", !.g = g, !.user = user,
                                 !.role = StateOf(db, g).prison_role]]
                     /\ NoOutcome
    /\ UNCHANGED <<prison, holds, channels>>

\* as join_find_prison_entry, with is_none() for is_some()
join_find_prison_entry_negated(p) ==
    /\ h[p].pc = "find_prison_entry"
    /\ \E stored \in BOOLEAN :
        IF ~stored
        THEN Finish(p, Response("join", h[p].g, h[p].user, {}, h[p].role, NoVerdict,
                                "PersistenceUnavailable", {}))
        ELSE IF ~find_prison_entry(prison, h[p].g, h[p].user)
        THEN /\ h' = [h EXCEPT ![p].pc = "join_role"]
             /\ NoOutcome
        ELSE Finish(p, Response("join", h[p].g, h[p].user, {}, h[p].role, NoVerdict, "Ok", {}))
    /\ UNCHANGED <<db, prison, holds, channels, ops, ruled>>

\* as join_find_prison_entry, giving the role to every member that joins
join_find_prison_entry_unconditional(p) ==
    /\ h[p].pc = "find_prison_entry"
    /\ \E stored \in BOOLEAN :
        IF ~stored
        THEN Finish(p, Response("join", h[p].g, h[p].user, {}, h[p].role, NoVerdict,
                                "PersistenceUnavailable", {}))
        ELSE /\ h' = [h EXCEPT ![p].pc = "join_role"]
             /\ NoOutcome
    /\ UNCHANGED <<db, prison, holds, channels, ops, ruled>>

\* self.mongo.find_prison_entry(guild_id.into(), user_id.into()).await?.is_some()
join_find_prison_entry(p) ==
    /\ h[p].pc = "find_prison_entry"
    /\ \E stored \in BOOLEAN :
        IF ~stored
        THEN Finish(p, Response("join", h[p].g, h[p].user, {}, h[p].role, NoVerdict,
                                "PersistenceUnavailable", {}))
        ELSE IF find_prison_entry(prison, h[p].g, h[p].user)
        THEN /\ h' = [h EXCEPT ![p].pc = "join_role"]
             /\ NoOutcome
        ELSE Finish(p, Response("join", h[p].g, h[p].user, {}, h[p].role, NoVerdict, "Ok", {}))
    /\ UNCHANGED <<db, prison, holds, channels, ops, ruled>>

\* as join_add_role, asking for the role only if member.roles lacks it
join_add_role_unless_held(p) ==
    /\ h[p].pc = "join_role"
    /\ IF <<h[p].g, h[p].user, h[p].role>> \in holds
       THEN /\ holds' = holds
            /\ Finish(p, Response("join", h[p].g, h[p].user, {}, h[p].role, NoVerdict, "Ok", {}))
       ELSE \E ok \in BOOLEAN :
            /\ holds' = IF ok THEN holds \cup {<<h[p].g, h[p].user, h[p].role>>} ELSE holds
            /\ Finish(p, Response("join", h[p].g, h[p].user, {}, h[p].role, NoVerdict,
                                  IF ok THEN "Ok" ELSE "PlatformUnavailable", {"add_role"}))
    /\ UNCHANGED <<db, prison, channels, ops, ruled>>

\* member.add_role(&ctx.http, role_id).await?
join_add_role(p) ==
    /\ h[p].pc = "join_role"
    /\ \E ok \in BOOLEAN :
        /\ holds' = IF ok THEN holds \cup {<<h[p].g, h[p].user, h[p].role>>} ELSE holds
        /\ Finish(p, Response("join", h[p].g, h[p].user, {}, h[p].role, NoVerdict,
                              IF ok THEN "Ok" ELSE "PlatformUnavailable", {"add_role"}))
    /\ UNCHANGED <<db, prison, channels, ops, ruled>>

-----------------------------------------------------------------------------
(* The platform drops a role: the member left the guild, or the role was removed by hand *)

strip_role(g, u, r) ==
    /\ <<g, u, r>> \in holds
    /\ holds' = holds \ {<<g, u, r>>}
    /\ NoOutcome
    /\ UNCHANGED <<db, prison, channels, h, ops, ruled>>

-----------------------------------------------------------------------------
(* Dispatch *)

\* the slash commands registered with the platform, and their subcommands
CommandNames == {"lawsuit", "prison"}

Subcommands(name) ==
    IF name = "lawsuit"
    THEN {"create", "set_category", "close", "clear"}
    ELSE {"set_role", "arrest", "release"}

\* command.guild_id.wrap_err("guild_id not found")?: a /lawsuit command used
\* outside a guild (a direct message) is an Err before the subcommand is looked
\* at, which handle_interaction answers with "An internal error occurred"
guild_id_not_found(p, sub) ==
    /\ Received
    /\ Free(p)
    /\ Return(p, Response(sub, NoGuild, 0, {}, 0, NoVerdict, "InternalError", {}))
    /\ UNCHANGED <<db, prison, holds, channels>>

\* the guild, member and permissions of the command, then
\* match subcommand.name.as_str() { "create" .. "set_category" .. "close" ..
\* "clear" .. _ => Err(eyre!("Unknown subcommand")) }; an Err is answered by
\* handle_interaction with "An internal error occurred"
lawsuit_command_handler(G, sub) ==
    \/ \E p \in Procs : guild_id_not_found(p, sub)
    \/ CASE sub = "create" ->
            \E p \in Procs, g \in G, perm \in PermissionSets, judge \in Users :
                lawsuit_create(p, g, perm, judge)
         [] sub = "set_category" ->
            \E p \in Procs, g \in G, perm \in PermissionSets :
                \E ch \in {CategoryOf(g), TextChannelOf(g)} :
                    lawsuit_set_category(p, g, perm, ch)
         [] sub = "close" ->
            \E p \in Procs, g \in G, actor \in Users, perm \in PermissionSets,
               verdict \in Verdicts :
                \E room \in ChannelsOf(g) : lawsuit_close(p, g, actor, perm, room, verdict)
         [] sub = "clear" ->
            \E p \in Procs, g \in G, perm \in PermissionSets : lawsuit_clear(p, g, perm)
         [] OTHER ->
            \E p \in Procs, g \in G, perm \in PermissionSets :
                /\ Received
                /\ Free(p)
                /\ Return(p, Response(sub, g, 0, perm, 0, NoVerdict, "InternalError", {}))
                /\ UNCHANGED <<db, prison, holds, channels>>

\* match command.data.name.as_str() { "lawsuit" => lawsuit_command_handler(..),
\* _ => Ok(Response::EphemeralStr("not implemented :(")) }: of a command other
\* than /lawsuit neither the guild nor the member nor the options are read,
\* so the answer is the same in a guild of G and outside a guild
handle_interaction(G, name, sub) ==
    IF name = "lawsuit"
    THEN lawsuit_command_handler(G, sub)
    ELSE \E p \in Procs, g \in G \cup {NoGuild} :
            /\ Received
            /\ Free(p)
            /\ Return(p, Response(sub, g, 0, {}, 0, NoVerdict, "NotImplemented", {}))
            /\ UNCHANGED <<db, prison, holds, channels>>

\* a /lawsuit command arrives at interaction_create: the steps of
\* handle_interaction(G, "lawsuit", sub) for the four subcommands
LawsuitCommands(G) ==
    \/ \E p \in Procs, sub \in Subcommands("lawsuit") : guild_id_not_found(p, sub)
    \/ \E p \in Procs, g \in G, perm \in PermissionSets, judge \in Users :
            lawsuit_create(p, g, perm, judge)
    \/ \E p \in Procs, g \in G, perm \in PermissionSets :
            \E ch \in {CategoryOf(g), TextChannelOf(g)} : lawsuit_set_category(p, g, perm, ch)
    \/ \E p \in Procs, g \in G, actor \in Users, perm \in PermissionSets, verdict \in Verdicts :
            \E room \in ChannelsOf(g) : lawsuit_close(p, g, actor, perm, room, verdict)
    \/ \E p \in Procs, g \in G, perm \in PermissionSets : lawsuit_clear(p, g, perm)

LawsuitSteps ==
    \/ \E p \in Procs : initialize_room(p)
    \/ \E p \in Procs : initialize_persist(p)
    \/ \E p \in Procs : lawsuit_set_category_store(p)
    \/ \E p \in Procs : lawsuit_close_rule(p)
    \/ \E p \in Procs : send_response(p)

\* a /prison command arrives at interaction_create, from a guild of G or from
\* a direct message, and there is no route for it;
\* one of the command functions prison_set_role, prison_arrest, prison_release
\* is run by the command framework they are written for, in a guild of G or
\* outside a guild; a member joins; the platform drops a role
PrisonCommands(G) ==
    \/ \E sub \in Subcommands("prison") : handle_interaction(G, "prison", sub)
    \/ \E p \in Procs, g \in G \cup {NoGuild}, perm \in PermissionSets, role \in Roles :
            prison_set_role(p, g, perm, role)
    \/ \E p \in Procs, g \in G \cup {NoGuild}, perm \in PermissionSets, user \in Users :
            prison_arrest(p, g, perm, user)
    \/ \E p \in Procs, g \in G \cup {NoGuild}, perm \in PermissionSets, user \in Users :
            prison_release(p, g, perm, user)
    \/ \E p \in Procs, g \in G, user \in Users : handle_guild_member_join(p, g, user)
    \/ \E g \in G, u \in Users, r \in Roles : strip_role(g, u, r)

PrisonSteps ==
    \/ \E p \in Procs : prison_arrest_persist(p)
    \/ \E p \in Procs : prison_arrest_member(p)
    \/ \E p \in Procs : prison_arrest_role(p)
    \/ \E p \in Procs : prison_release_persist(p)
    \/ \E p \in Procs : prison_release_member(p)
    \/ \E p \in Procs : prison_release_role(p)
    \/ \E p \in Procs : join_find_prison_entry(p)
    \/ \E p \in Procs : join_add_role(p)
    \/ \E p \in Procs : say(p)

\* every command and event, in every guild
Next == LawsuitCommands(Guilds) \/ LawsuitSteps \/ PrisonCommands(Guilds) \/ PrisonSteps

Spec == Init /\ [][Next]_vars

\* the /lawsuit commands of one guild or of none, any two of them running
\* concurrently
NextLawsuit == LawsuitCommands({1}) \/ LawsuitSteps

SpecLawsuit == Init /\ [][NextLawsuit]_vars

\* the /prison commands, the join event and, of the /lawsuit commands, clear
\* alone, in one guild
NextPrison ==
    \/ PrisonCommands({1})
    \/ PrisonSteps
    \/ \E p \in Procs, perm \in PermissionSets : lawsuit_clear(p, 1, perm)
    \/ \E p \in Procs : send_response(p)

SpecPrison == Init /\ [][NextPrison]_vars

\* every command and event of one guild
NextGuild == LawsuitCommands({1}) \/ LawsuitSteps \/ PrisonCommands({1}) \/ PrisonSteps

SpecGuild == Init /\ [][NextGuild]_vars

\* the command-invoked events of one guild, as interaction_create receives them
NextInteraction ==
    \/ \E name \in CommandNames : \E sub \in Subcommands(name) :
            handle_interaction({1}, name, sub)
    \/ LawsuitSteps

SpecInteraction == Init /\ [][NextInteraction]_vars

\* every call accepted by the store and by the platform
Accepted == result'.resp \notin {"PlatformUnavailable", "PersistenceUnavailable"}

\* arrest, release and join of one guild whose prison role, once set, stays
\* the same, with every call accepted and no role lost on the platform's side;
\* the /prison commands that arrive at interaction_create are answered too
NextQuiescent ==
    \/ \E sub \in Subcommands("prison") : handle_interaction({1}, "prison", sub)
    \/ \E p \in Procs : send_response(p) /\ reply' # NoReply
    \/ \E p \in Procs, g \in {1, NoGuild}, perm \in PermissionSets :
            prison_set_role(p, g, perm, 7) /\ Accepted
    \/ \E p \in Procs, g \in {1, NoGuild}, perm \in PermissionSets, user \in Users :
            prison_arrest(p, g, perm, user) /\ Accepted
    \/ \E p \in Procs, g \in {1, NoGuild}, perm \in PermissionSets, user \in Users :
            prison_release(p, g, perm, user) /\ Accepted
    \/ \E p \in Procs, user \in Users : handle_guild_member_join(p, 1, user) /\ Accepted
    \/ \E p \in Procs : prison_arrest_persist(p) /\ Accepted
    \/ \E p \in Procs : prison_arrest_member(p) /\ Accepted
    \/ \E p \in Procs : prison_arrest_role(p) /\ Accepted
    \/ \E p \in Procs : prison_release_persist(p) /\ Accepted
    \/ \E p \in Procs : prison_release_member(p) /\ Accepted
    \/ \E p \in Procs : prison_release_role(p) /\ Accepted
    \/ \E p \in Procs : join_find_prison_entry(p) /\ Accepted
    \/ \E p \in Procs : join_add_role(p) /\ Accepted
    \/ \E p \in Procs : say(p) /\ reply' # NoReply

SpecQuiescent == Init /\ [][NextQuiescent]_vars

-----------------------------------------------------------------------------
(* Properties *)

\* the handler in slot p takes its step from the program point `from`
Stepped(p, from) == h[p].pc = from /\ h'[p].pc # from

\* a command is received in slot p and goes on to the program point `to`
Started(p, to) == h[p].pc = "idle" /\ h'[p].pc = to

\* the actor of the close running in slot p may rule: judge of the lawsuit it
\* looked up, or holder of MANAGE_GUILD
MayRule(hp) == MANAGE_GUILD \in hp.perm \/ hp.user = hp.lawsuit.judge

Closed(s) == {i \in DOMAIN s.lawsuits : s.lawsuits[i].verdict # NoVerdict}

\* the store refused the call of the step just taken
StoreFailed == result'.resp = "PersistenceUnavailable"

\* the step just taken handed its result to send_response, and did nothing
\* else to the slots
Returned ==
    \E p \in Procs :
        h' = [h EXCEPT ![p] = [Idle EXCEPT !.pc = "send_response", !.g = result'.g,
                                           !.op = result'.op,
                                           !.out = Content(result'.resp)]]

\* C1: in every reachable guild state no two lawsuits are active (verdict none)
\* in the same court room.
C1_OneActiveLawsuitPerRoom ==
    \A g \in DOMAIN db : \A i, j \in DOMAIN db[g].lawsuits :
        (/\ i # j
         /\ db[g].lawsuits[i].verdict = NoVerdict
         /\ db[g].lawsuits[j].verdict = NoVerdict)
        => db[g].lawsuits[i].court_room # db[g].lawsuits[j].court_room

\* two lawsuits were created in a guild, one of them was closed, the other is active
C1_Witness ==
    \E g \in DOMAIN db :
        /\ Len(db[g].lawsuits) >= 2
        /\ Closed(db[g]) # {}
        /\ \E i \in DOMAIN db[g].lawsuits : db[g].lawsuits[i].verdict = NoVerdict

\* C2: a close succeeds at most once per room of a guild, whatever the
\* interleaving of the reads and writes of the close handlers; a close that may
\* rule and comes to its write after another one succeeded writes nothing and
\* returns NoActiveLawsuit, unless the store refused its call.
C2_OneCloseSucceeds ==
    [][/\ (result'.op = "close" /\ result'.resp = "Closed")
            => <<result'.g, result'.arg>> \notin ruled
       /\ \A p \in Procs :
            (/\ Stepped(p, "rule_verdict")
             /\ <<h[p].g, h[p].arg>> \in ruled
             /\ MayRule(h[p]))
            => /\ result'.op = "close"
               /\ ~StoreFailed => result'.resp = "NoActiveLawsuit"
               /\ db' = db]_vars

\* two closes of the same room have both read the active lawsuit, both may rule,
\* and one of them has just succeeded
C2_Witness ==
    /\ result.op = "close"
    /\ result.resp = "Closed"
    /\ \E q \in Procs :
        /\ h[q].pc = "rule_verdict"
        /\ h[q].g = result.g
        /\ h[q].arg = result.arg
        /\ MayRule(h[q])

\* C3: a close that found an active lawsuit in its room, by an actor who is
\* neither the judge of that lawsuit nor a holder of MANAGE_GUILD, returns
\* Forbidden unless the store refused its call, and neither its lookup nor its
\* ruling changes the guild state.
C3_CloseForbidden ==
    [][\A p \in Procs :
        /\ (Stepped(p, "rule_verdict") /\ ~MayRule(h[p]))
            => /\ result'.op = "close"
               /\ ~StoreFailed => result'.resp = "Forbidden"
               /\ result'.user = h[p].user
               /\ <<db, prison, holds, channels, ruled>>' = <<db, prison, holds, channels, ruled>>
        /\ Started(p, "rule_verdict")
            => /\ StateOf(db', h'[p].g) = StateOf(db, h'[p].g)
               /\ ActiveIn(StateOf(db, h'[p].g), h'[p].arg) # {}
               /\ h'[p].lawsuit \in
                    {StateOf(db, h'[p].g).lawsuits[i] :
                        i \in ActiveIn(StateOf(db, h'[p].g), h'[p].arg)}]_vars

\* a non-judge without MANAGE_GUILD was refused while the lawsuit of the room is active
C3_Witness ==
    /\ result.op = "close"
    /\ result.resp = "Forbidden"
    /\ MANAGE_GUILD \notin result.perm
    /\ result.g \in DOMAIN db
    /\ ActiveIn(db[result.g], result.arg) # {}

\* C4: when a close by the judge of the room's active lawsuit, or by a holder of
\* MANAGE_GUILD, comes to its write while the room has an active lawsuit, it
\* succeeds unless the store refuses the call, and then nothing is written; a
\* close that succeeds sets its verdict on that lawsuit alone: every other
\* lawsuit, the rooms, the configuration and the prison entries stay as they were.
C4_CloseByJudgeSucceeds ==
    [][\A p \in Procs :
        (/\ Stepped(p, "rule_verdict")
         /\ h[p].g \in DOMAIN db
         /\ ActiveIn(db[h[p].g], h[p].arg) # {}
         /\ \/ MANAGE_GUILD \in h[p].perm
            \/ h[p].user = db[h[p].g].lawsuits[Min(ActiveIn(db[h[p].g], h[p].arg))].judge)
        => LET g == h[p].g
               i == Min(ActiveIn(db[g], h[p].arg))
           IN /\ result'.op = "close"
              /\ result'.resp \in {"Closed", "PersistenceUnavailable"}
              /\ StoreFailed => db' = db
              /\ ~StoreFailed =>
                  /\ DOMAIN db' = DOMAIN db
                  /\ \A g2 \in DOMAIN db \ {g} : db'[g2] = db[g2]
                  /\ db'[g].lawsuits[i] = [db[g].lawsuits[i] EXCEPT !.verdict = h[p].verdict]
                  /\ db[g].lawsuits[i].id = h[p].lawsuit.id
                  /\ Len(db'[g].lawsuits) = Len(db[g].lawsuits)
                  /\ \A j \in DOMAIN db[g].lawsuits \ {i} :
                        db'[g].lawsuits[j] = db[g].lawsuits[j]
                  /\ db'[g].court_rooms = db[g].court_rooms
                  /\ db'[g].court_category = db[g].court_category
                  /\ db'[g].prison_role = db[g].prison_role
              /\ <<prison, holds, channels>>' = <<prison, holds, channels>>]_vars

\* the judge, holding no MANAGE_GUILD, closed one of two lawsuits of the guild
C4_Witness ==
    /\ result.op = "close"
    /\ result.resp = "Closed"
    /\ MANAGE_GUILD \notin result.perm
    /\ result.g \in DOMAIN db
    /\ Len(db[result.g].lawsuits) >= 2
    /\ \E i \in DOMAIN db[result.g].lawsuits :
        /\ db[result.g].lawsuits[i].court_room = result.arg
        /\ db[result.g].lawsuits[i].verdict = result.verdict
        /\ db[result.g].lawsuits[i].judge = result.user

\* C5: a close received in a room of a guild that has no lawsuit with verdict none returns
\* at once, without a ruling, whoever the actor is and whatever they may do:
\* NoActiveLawsuit unless the store refused the lookup; it changes nothing, and
\* a verdict that is set is not overwritten.
C5_CloseNoActiveLawsuit ==
    [][/\ (/\ result'.op = "close"
           /\ result'.g \in Guilds
           /\ ops' = ops + 1)
            => /\ result'.resp \in {"NoActiveLawsuit", "PersistenceUnavailable"}
               /\ ~StoreFailed => ActiveIn(StateOf(db, result'.g), result'.arg) = {}
               /\ StateOf(db', result'.g) = StateOf(db, result'.g)
               /\ \A g \in DOMAIN db : db'[g] = db[g]
               /\ <<prison, holds, channels, ruled>>' = <<prison, holds, channels, ruled>>
               /\ Returned
       /\ \A p \in Procs :
            Started(p, "rule_verdict")
                => ActiveIn(StateOf(db, h'[p].g), h'[p].arg) # {}]_vars

\* the judge of a closed lawsuit, holding MANAGE_GUILD, asked to close it again
C5_Witness ==
    /\ result.op = "close"
    /\ result.resp = "NoActiveLawsuit"
    /\ ops > 0
    /\ \A p \in Procs : h[p].pc # "rule_verdict"
    /\ MANAGE_GUILD \in result.perm
    /\ result.g \in DOMAIN db
    /\ \E i \in DOMAIN db[result.g].lawsuits :
        /\ db[result.g].lawsuits[i].court_room = result.arg
        /\ db[result.g].lawsuits[i].verdict \notin {NoVerdict, result.verdict}
        /\ db[result.g].lawsuits[i].judge = result.user

\* C6: an arrest that passed its checks records the entry of the user, unless
\* the store refuses the call; a join of a user received while a role is
\* configured looks the entry up, and for a user who has one it asks the
\* platform for the role read at its arrival, which the user holds once the
\* platform accepts; the loss of the role on the platform (leave, removal by
\* hand) leaves the entry, so the next join gives it again.
C6_ConfinementDurable ==
    [][/\ \A p \in Procs :
            /\ (Stepped(p, "add_to_prison") /\ ~StoreFailed)
                => /\ find_prison_entry(prison', h[p].g, h[p].user)
                   /\ h'[p].pc = "arrest_member"
            /\ Started(p, "find_prison_entry")
                => /\ h'[p].role = StateOf(db, h'[p].g).prison_role
                   /\ h'[p].role # NoId
            /\ (/\ Stepped(p, "find_prison_entry")
                /\ find_prison_entry(prison, h[p].g, h[p].user))
                => /\ ~StoreFailed => h'[p] = [h[p] EXCEPT !.pc = "join_role"]
                   /\ <<prison, db>>' = <<prison, db>>
            /\ Stepped(p, "join_role")
                => /\ result'.op = "join"
                   /\ result'.calls = {"add_role"}
                   /\ result'.resp = "Ok" => <<h[p].g, h[p].user, h[p].role>> \in holds'
       /\ (result'.op = "join" /\ ops' = ops + 1 /\ ~StoreFailed)
            => StateOf(db, result'.g).prison_role = NoId
       /\ (h' = h /\ holds' # holds)
            => <<prison, db>>' = <<prison, db>>]_vars

\* a join found the entry of a user who does not hold the configured role while
\* no arrest is under way: the platform lost the role, or never gave it
C6_Witness ==
    \E p \in Procs :
        /\ h[p].pc = "join_role"
        /\ find_prison_entry(prison, h[p].g, h[p].user)
        /\ h[p].g \in DOMAIN db
        /\ db[h[p].g].prison_role = h[p].role
        /\ <<h[p].g, h[p].user, h[p].role>> \notin holds
        /\ \A q \in Procs \ {p} : h[q].pc = "idle"

\* C7: a release that passed its checks removes the entry of the user before it
\* asks the platform anything, unless the store refuses the call, and a join
\* that finds no entry of the user ends without a platform call and without a
\* role given: after the release, and until an arrest records the user again, a
\* join does not give the role back.
C7_ReleaseClearsDurability ==
    [][\A p \in Procs :
        /\ Stepped(p, "remove_from_prison")
            => /\ holds' = holds
               /\ ~StoreFailed
                    => /\ ~find_prison_entry(prison', h[p].g, h[p].user)
                       /\ result' = NoResult
                       /\ h'[p].pc = "release_member"
               /\ StoreFailed => (prison' = prison /\ h'[p] = Idle)
        /\ (Stepped(p, "release_member") \/ Stepped(p, "release_role"))
            => /\ ~find_prison_entry(prison, h[p].g, h[p].user) => prison' = prison
               /\ result'.op \in {"release", "none"}
        /\ (/\ Stepped(p, "find_prison_entry")
            /\ ~find_prison_entry(prison, h[p].g, h[p].user))
            => /\ result'.op = "join"
               /\ ~StoreFailed => result'.resp = "Ok"
               /\ result'.calls = {}
               /\ holds' = holds
               /\ h'[p] = Idle]_vars

\* a user without an entry who still holds the configured role (the entry was
\* removed, the role was not taken away) joined and was given nothing
C7_Witness ==
    /\ result.op = "join"
    /\ result.resp = "Ok"
    /\ result.calls = {}
    /\ result.arg # NoId
    /\ ~find_prison_entry(prison, result.g, result.user)
    /\ <<result.g, result.user, result.arg>> \in holds

\* every guild's state as find_or_insert_state returns it
GuildStates(d) == [g \in Guilds |-> StateOf(d, g)]

\* C8: the join handler asks the platform for nothing when the guild has no
\* prison role or the user has no entry, and none of its steps changes the
\* lawsuits, the rooms, the configuration or the prison entries of any guild.
C8_JoinReconciliationFrame ==
    [][/\ (result'.op = "join" /\ ops' = ops + 1)
            => /\ ~StoreFailed => StateOf(db, result'.g).prison_role = NoId
               /\ result'.calls = {}
               /\ holds' = holds
       /\ result'.op = "join"
            => <<GuildStates(db), prison, channels>>' = <<GuildStates(db), prison, channels>>
       /\ \A p \in Procs :
            /\ Started(p, "find_prison_entry")
                => /\ StateOf(db, h'[p].g).prison_role # NoId
                   /\ <<GuildStates(db), prison, channels, holds>>'
                        = <<GuildStates(db), prison, channels, holds>>
            /\ Stepped(p, "find_prison_entry")
                => /\ <<db, prison, channels, holds>>' = <<db, prison, channels, holds>>
                   /\ result'.calls = {}
                   /\ ~find_prison_entry(prison, h[p].g, h[p].user) => result'.op = "join"
                   /\ (find_prison_entry(prison, h[p].g, h[p].user) /\ ~StoreFailed)
                        => result' = NoResult
            /\ Stepped(p, "join_role")
                => /\ <<db, prison, channels>>' = <<db, prison, channels>>
                   /\ holds' \subseteq holds \cup {<<h[p].g, h[p].user, h[p].role>>}]_vars

\* a guild with a court category, a prison role and the entry of another user:
\* a user without an entry joined and no platform call was made
C8_Witness ==
    /\ result.op = "join"
    /\ result.resp = "Ok"
    /\ result.calls = {}
    /\ result.arg # NoId
    /\ result.g \in DOMAIN db
    /\ db[result.g].court_category # NoId
    /\ \E u \in Users \ {result.user} : find_prison_entry(prison, result.g, u)

\* C9: a clear of a guild by a holder of MANAGE_GUILD succeeds unless the store refuses
\* the call, and then nothing is deleted; a clear that succeeds leaves nothing
\* of the guild: find_or_insert_state returns the default record (no category,
\* no role, no rooms, no lawsuits), no prison entry of the guild remains, so that
\* a join of a user arrested before finds no entry and gives no role; other
\* guilds keep their state.
C9_ClearIsTotal ==
    [][/\ (result'.op = "clear" /\ result'.g \in Guilds)
            => /\ result'.resp \in (IF MANAGE_GUILD \in result'.perm
                                    THEN {"Cleared", "PersistenceUnavailable"}
                                    ELSE {"NoPermissions"})
               /\ result'.resp # "Cleared" => <<db, prison>>' = <<db, prison>>
               /\ holds' = holds
               /\ \A g \in Guilds \ {result'.g} :
                    /\ StateOf(db', g) = StateOf(db, g)
                    /\ \A u \in Users : find_prison_entry(prison', g, u) = find_prison_entry(prison, g, u)
       /\ (result'.op = "clear" /\ result'.resp = "Cleared")
            => /\ StateOf(db', result'.g) = DefaultState
               /\ result'.g \notin DOMAIN db'
               /\ \A u \in Users : ~find_prison_entry(prison', result'.g, u)
       /\ \A p \in Procs :
            (/\ Stepped(p, "find_prison_entry")
             /\ \A u \in Users : ~find_prison_entry(prison, h[p].g, u))
            => (result'.op = "join" /\ result'.calls = {} /\ holds' = holds)]_vars

\* the guild had an arrested user holding the role when it was cleared, and
\* no other handler is under way
C9_Witness ==
    /\ result.op = "clear"
    /\ result.resp = "Cleared"
    /\ \E u \in Users, r \in Roles : <<result.g, u, r>> \in holds
    /\ \E p \in Procs :
        /\ h[p].pc = "send_response"
        /\ \A q \in Procs \ {p} : h[q].pc = "idle"

\* court rooms of a guild state
RoomsOf(s) == {s.court_rooms[i].channel_id : i \in DOMAIN s.court_rooms}

\* C10: a create by a holder of MANAGE_GUILD in a guild without court category
\* returns Unconfigured, with no room asked for and nothing stored; once
\* set_category has stored a category, the create goes on, and when the platform
\* has made the room and the store accepts the write it stores a lawsuit with no
\* verdict in that new room, which is not the placeholder 0.
C10_CreateNeedsCategory ==
    [][/\ (result'.op = "create" /\ ops' = ops + 1 /\ MANAGE_GUILD \in result'.perm)
            => /\ ~StoreFailed
                    => /\ StateOf(db, result'.g).court_category = NoId
                       /\ result'.resp = "Unconfigured"
               /\ result'.calls = {}
               /\ StateOf(db', result'.g) = StateOf(db, result'.g)
               /\ channels' = channels
               /\ Returned
       /\ (result'.op = "set_category" /\ result'.resp = "Set")
            => /\ StateOf(db', result'.g).court_category = result'.arg
               /\ result'.arg # NoId
       /\ \A p \in Procs :
            /\ Started(p, "create_room")
                => /\ StateOf(db, h'[p].g).court_category # NoId
                   /\ h'[p].lawsuit.verdict = NoVerdict
                   /\ h'[p].lawsuit.court_room = NoId
                   /\ StateOf(db', h'[p].g) = StateOf(db, h'[p].g)
            /\ (Stepped(p, "create_room") /\ h'[p].pc = "add_lawsuit")
                => /\ h'[p].lawsuit.court_room \notin DOMAIN channels \cup {NoId}
                   /\ h'[p].lawsuit.court_room \in DOMAIN channels'
                   /\ db' = db
            /\ Stepped(p, "add_lawsuit")
                => LET s == StateOf(db, h[p].g)
                       t == StateOf(db', h[p].g)
                   IN /\ result'.op = "create"
                      /\ result'.resp \in {"Created", "PersistenceUnavailable"}
                      /\ StoreFailed => db' = db
                      /\ ~StoreFailed =>
                          /\ t.lawsuits = Append(s.lawsuits, h[p].lawsuit)
                          /\ h[p].lawsuit.verdict = NoVerdict
                          /\ h[p].lawsuit.court_room # NoId
                          /\ h[p].lawsuit.court_room = result'.arg
                          /\ h[p].lawsuit.court_room \notin RoomsOf(s)
                          /\ RoomsOf(t) = RoomsOf(s) \cup {h[p].lawsuit.court_room}]_vars

\* a lawsuit was created in a guild whose category is set
C10_Witness ==
    /\ result.op = "create"
    /\ result.resp = "Created"
    /\ result.g \in DOMAIN db
    /\ db[result.g].court_category = CategoryOf(result.g)
    /\ \E i \in DOMAIN db[result.g].lawsuits :
        /\ db[result.g].lawsuits[i].court_room = result.arg
        /\ db[result.g].lawsuits[i].verdict = NoVerdict
        /\ result.arg # NoId

\* rooms that the lawsuits of a guild state are held in
LawsuitRoomsOf(s) == {s.lawsuits[i].court_room : i \in DOMAIN s.lawsuits}

\* C11: a create writes to the store only after the platform has made the
\* room: the step that asks for the room writes nothing, and when the platform
\* refuses it the create returns PlatformUnavailable with no room and no
\* lawsuit appended; lawsuits are appended only by the step that follows a made
\* room, one lawsuit together with its room, or nothing at all when the store
\* refuses the write; so in every stored guild state the lawsuits and the court
\* rooms come in pairs.
C11_CreatePersistsAfterRoom ==
    [][/\ \A p \in Procs :
            /\ Stepped(p, "create_room")
                => /\ db' = db
                   /\ h'[p].pc \in {"add_lawsuit", "send_response"}
                   /\ h'[p].pc = "add_lawsuit"
                        => /\ result' = NoResult
                           /\ h'[p].lawsuit.court_room \in DOMAIN channels' \ DOMAIN channels
                   /\ h'[p].pc = "send_response"
                        => /\ result'.op = "create"
                           /\ result'.resp = "PlatformUnavailable"
                           /\ channels' = channels
            /\ Stepped(p, "add_lawsuit")
                => /\ h[p].lawsuit.court_room \in DOMAIN channels
                   /\ StoreFailed => db' = db
                   /\ ~StoreFailed
                        => /\ Len(StateOf(db', h[p].g).lawsuits)
                                = Len(StateOf(db, h[p].g).lawsuits) + 1
                           /\ Len(StateOf(db', h[p].g).court_rooms)
                                = Len(StateOf(db, h[p].g).court_rooms) + 1
       /\ \A g \in Guilds :
            \/ Len(StateOf(db', g).lawsuits) > Len(StateOf(db, g).lawsuits)
            \/ Len(StateOf(db', g).court_rooms) > Len(StateOf(db, g).court_rooms)
            => \E p \in Procs : Stepped(p, "add_lawsuit") /\ h[p].g = g
       /\ \A g \in DOMAIN db' :
            /\ LawsuitRoomsOf(db'[g]) = RoomsOf(db'[g])
            /\ Len(db'[g].lawsuits) = Len(db'[g].court_rooms)]_vars

\* the platform refused the room of a create in a guild that has a lawsuit
\* already: the stored lawsuits and rooms are those of before
C11_Witness ==
    /\ result.op = "create"
    /\ result.resp = "PlatformUnavailable"
    /\ result.g \in DOMAIN db
    /\ db[result.g].lawsuits # <<>>
    /\ Len(db[result.g].lawsuits) = Len(db[result.g].court_rooms)

\* C12: an arrest records the entry of the user before it asks the platform
\* for anything: the recording step makes no platform call, the fetch of the
\* member comes only after it and the role assignment only after the fetch;
\* when the fetch or the role assignment fails the arrest returns the failure
\* and leaves the entries as they are, and a join that finds the entry goes on
\* to give the role.
C12_ArrestFactBeforeEffect ==
    [][\A p \in Procs :
        /\ Stepped(p, "add_to_prison")
            => /\ holds' = holds
               /\ ~StoreFailed
                    => /\ find_prison_entry(prison', h[p].g, h[p].user)
                       /\ result' = NoResult
                       /\ h'[p] = [h[p] EXCEPT !.pc = "arrest_member"]
               /\ StoreFailed => (prison' = prison /\ h'[p] = Idle)
        /\ (h'[p].pc = "arrest_member" /\ h[p].pc # "arrest_member")
            => Stepped(p, "add_to_prison")
        /\ (h'[p].pc = "arrest_role" /\ h[p].pc # "arrest_role")
            => Stepped(p, "arrest_member")
        /\ Stepped(p, "arrest_member")
            => /\ <<prison, holds>>' = <<prison, holds>>
               /\ \/ result' = NoResult /\ h'[p] = [h[p] EXCEPT !.pc = "arrest_role"]
                  \/ /\ result'.op = "arrest"
                     /\ result'.resp = "PlatformUnavailable"
                     /\ result'.calls = {"member"}
                     /\ h'[p] = Idle
        /\ Stepped(p, "arrest_role")
            => /\ result'.op = "arrest"
               /\ result'.resp \in {"Ok", "PlatformUnavailable"}
               /\ result'.calls = {"member", "add_role"}
               /\ prison' = prison
               /\ result'.resp = "PlatformUnavailable" => holds' = holds
               /\ result'.resp = "Ok"
                    => holds' = holds \cup {<<h[p].g, h[p].user, h[p].role>>}
        /\ (/\ Stepped(p, "find_prison_entry")
            /\ find_prison_entry(prison, h[p].g, h[p].user)
            /\ ~StoreFailed)
            => h'[p].pc = "join_role"]_vars

\* an arrest returned the failure of the role assignment: the user has the
\* entry and does not hold the role
C12_Witness ==
    /\ result.op = "arrest"
    /\ result.resp = "PlatformUnavailable"
    /\ "add_role" \in result.calls
    /\ find_prison_entry(prison, result.g, result.user)
    /\ <<result.g, result.user, result.arg>> \notin holds

\* C13: a release removes the entry of the user before it asks the platform
\* for anything; when the fetch of the member or the removal of the role fails,
\* the release returns the failure, ends, and leaves the entries as they are
\* (the entry is not put back); a role is taken away only by a release step the
\* platform accepted or by the platform itself, never by a retry.
C13_ReleaseRemovesEntryFirst ==
    [][/\ \A p \in Procs :
            /\ Stepped(p, "remove_from_prison")
                => /\ holds' = holds
                   /\ ~StoreFailed
                        => /\ ~find_prison_entry(prison', h[p].g, h[p].user)
                           /\ h'[p] = [h[p] EXCEPT !.pc = "release_member"]
                   /\ StoreFailed => (prison' = prison /\ h'[p] = Idle)
            /\ (h'[p].pc = "release_member" /\ h[p].pc # "release_member")
                => Stepped(p, "remove_from_prison")
            /\ (h'[p].pc = "release_role" /\ h[p].pc # "release_role")
                => Stepped(p, "release_member")
            /\ Stepped(p, "release_member")
                => /\ <<prison, holds>>' = <<prison, holds>>
                   /\ \/ result' = NoResult /\ h'[p] = [h[p] EXCEPT !.pc = "release_role"]
                      \/ /\ result'.op = "release"
                         /\ result'.resp = "PlatformUnavailable"
                         /\ result'.calls = {"member"}
                         /\ h'[p] = Idle
            /\ Stepped(p, "release_role")
                => /\ result'.op = "release"
                   /\ result'.resp \in {"Ok", "PlatformUnavailable"}
                   /\ result'.calls = {"member", "remove_role"}
                   /\ prison' = prison
                   /\ result'.resp = "PlatformUnavailable"
                        => (holds' = holds /\ h'[p] = Idle)
                   /\ result'.resp = "Ok"
                        => /\ holds' = holds \ {<<h[p].g, h[p].user, h[p].role>>}
                           /\ h'[p].pc = "say"
       /\ (\E x \in holds : x \notin holds')
            => \/ \E p \in Procs : Stepped(p, "release_role") /\ result'.resp = "Ok"
               \/ h' = h /\ ops' = ops]_vars

\* a release returned the failure of the platform: the entry of the user is
\* gone, the user still holds the role, and no handler is running
C13_Witness ==
    /\ result.op = "release"
    /\ result.resp = "PlatformUnavailable"
    /\ ~find_prison_entry(prison, result.g, result.user)
    /\ <<result.g, result.user, result.arg>> \in holds
    /\ \A p \in Procs : h[p].pc = "idle"

\* C14: an arrest or a release run for a holder of MANAGE_GUILD in a guild without
\* prison role returns Unconfigured at once and has nothing left to do but say
\* so: no entry is added or removed, the platform is asked for no member and no
\* role changes hands; an arrest or a release goes on to its write only in a
\* guild whose prison role is set.
C14_PrisonNeedsRole ==
    [][/\ (/\ result'.op \in {"arrest", "release"}
           /\ result'.g \in Guilds
           /\ result'.resp # "NotImplemented"
           /\ ops' = ops + 1
           /\ MANAGE_GUILD \in result'.perm)
            => /\ ~StoreFailed
                    => /\ StateOf(db, result'.g).prison_role = NoId
                       /\ result'.resp = "Unconfigured"
               /\ result'.calls = {}
               /\ StateOf(db', result'.g) = StateOf(db, result'.g)
               /\ <<prison, holds>>' = <<prison, holds>>
               /\ \A p \in Procs : h'[p] # h[p] => (h'[p].pc = "say" /\ ~StoreFailed)
       /\ \A p \in Procs :
            (Started(p, "add_to_prison") \/ Started(p, "remove_from_prison"))
                => /\ StateOf(db, h'[p].g).prison_role # NoId
                   /\ h'[p].role = StateOf(db, h'[p].g).prison_role
                   /\ <<prison, holds>>' = <<prison, holds>>]_vars

\* a release returned Unconfigured although the user has an entry (the guild
\* was cleared while the arrest was under way)
C14_Witness ==
    /\ result.op = "release"
    /\ result.resp = "Unconfigured"
    /\ MANAGE_GUILD \in result.perm
    /\ StateOf(db, result.g).prison_role = NoId
    /\ find_prison_entry(prison, result.g, result.user)

\* C15: a set_category by a holder of MANAGE_GUILD whose channel was fetched
\* returns InvalidTarget when the channel is not a category, and the guild
\* state stays as it was; when the channel is a category and the store accepts
\* the write it returns Set and the guild state differs from before in the court
\* category alone, which is the id of that category; no other guild, no prison
\* entry, no role, no room and no other handler is touched either way.
C15_SetCategoryNeedsCategory ==
    [][/\ result'.op = "set_category"
        => LET g == result'.g
               known == /\ MANAGE_GUILD \in result'.perm
                        /\ result'.resp \notin {"PlatformUnavailable", "PersistenceUnavailable"}
           IN /\ (known /\ result'.arg # CategoryOf(g))
                    => /\ result'.resp = "InvalidTarget"
                       /\ StateOf(db', g) = StateOf(db, g)
              /\ (known /\ result'.arg = CategoryOf(g))
                    => /\ result'.resp = "Set"
                       /\ StateOf(db', g) = [StateOf(db, g) EXCEPT !.court_category = result'.arg]
              /\ result'.resp # "Set" => db' = db
              /\ \A g2 \in Guilds \ {g} : StateOf(db', g2) = StateOf(db, g2)
              /\ <<prison, holds, channels>>' = <<prison, holds, channels>>
              /\ Returned
       /\ \A p \in Procs :
            Started(p, "set_court_category")
                => /\ h'[p].arg = CategoryOf(h'[p].g)
                   /\ <<db, prison, holds, channels>>' = <<db, prison, holds, channels>>
                   /\ \A q \in Procs \ {p} : h'[q] = h[q]]_vars

\* a text channel was refused in a guild that has a category and a lawsuit: both
\* are still there
C15_Witness ==
    /\ result.op = "set_category"
    /\ result.resp = "InvalidTarget"
    /\ result.arg = TextChannelOf(result.g)
    /\ result.g \in DOMAIN db
    /\ db[result.g].court_category = CategoryOf(result.g)
    /\ db[result.g].lawsuits # <<>>

\* C16: a create, set_category or clear of a guild by an actor without MANAGE_GUILD
\* returns NoPermissions at once, with the store not even read, no platform
\* call and nothing changed; the steps of a create and the write of a
\* set_category run only for holders of MANAGE_GUILD; the only result other
\* than NoPermissions that an actor without MANAGE_GUILD gets is that of a
\* close, and a close of theirs that succeeds sets the verdict of a lawsuit
\* whose judge they are.
C16_ManagerOnly ==
    [][/\ (/\ result'.op \in {"create", "set_category", "clear"}
           /\ result'.g \in Guilds
           /\ MANAGE_GUILD \notin result'.perm)
            => /\ result'.resp = "NoPermissions"
               /\ result'.calls = {}
               /\ ops' = ops + 1
               /\ <<db, prison, holds, channels>>' = <<db, prison, holds, channels>>
               /\ Returned
       /\ (/\ result'.g \in Guilds
           /\ MANAGE_GUILD \notin result'.perm
           /\ result'.resp # "NoPermissions")
            => result'.op = "close"
       /\ (result'.op = "close" /\ MANAGE_GUILD \notin result'.perm /\ result'.resp # "Closed")
            => \A g \in Guilds : StateOf(db', g) = StateOf(db, g)
       /\ (result'.op = "close" /\ MANAGE_GUILD \notin result'.perm /\ result'.resp = "Closed")
            => LET s == StateOf(db, result'.g)
                   t == StateOf(db', result'.g)
               IN \E i \in ActiveIn(s, result'.arg) :
                    /\ s.lawsuits[i].judge = result'.user
                    /\ t = [s EXCEPT !.lawsuits[i].verdict = result'.verdict]
       /\ \A p \in Procs :
            h'[p].pc \in {"create_room", "add_lawsuit", "set_court_category"}
                => MANAGE_GUILD \in h'[p].perm]_vars

\* an actor without MANAGE_GUILD asked to clear a guild that has a category and
\* a lawsuit, and was refused
C16_Witness ==
    /\ result.op = "clear"
    /\ result.resp = "NoPermissions"
    /\ MANAGE_GUILD \notin result.perm
    /\ result.g \in DOMAIN db
    /\ db[result.g].court_category # NoId
    /\ db[result.g].lawsuits # <<>>

\* the guild that the step being taken is handled for: the guild of the handler
\* that moves, or of the command that is answered at once (0 if none)
StepGuild ==
    IF \E p \in Procs : h'[p] # h[p]
    THEN LET p == CHOOSE q \in Procs : h'[q] # h[q]
         IN IF h'[p].pc = "idle" THEN h[p].g ELSE h'[p].g
    ELSE result'.g

\* users with a prison entry in a guild
EntriesOf(pr, g) == {u \in Users : find_prison_entry(pr, g, u)}

\* C17: whatever command or event a step handles for a guild, and whatever
\* other handlers are under way, the step leaves every other guild as it was:
\* its record exists or not as before, its configuration, rooms and lawsuits
\* are the same, and so are its prison entries.
C17_GuildsIndependent ==
    [][\A g2 \in Guilds \ {StepGuild} :
        /\ (g2 \in DOMAIN db') = (g2 \in DOMAIN db)
        /\ StateOf(db', g2) = StateOf(db, g2)
        /\ EntriesOf(prison', g2) = EntriesOf(prison, g2)]_vars

\* a guild was cleared while the other guild has a prison role, an entry and
\* a court category, and a handler of the other guild is under way
C17_Witness ==
    /\ result.op = "clear"
    /\ result.resp = "Cleared"
    /\ \E g2 \in DOMAIN db \ {result.g} :
        /\ db[g2].court_category # NoId
        /\ db[g2].prison_role # NoId
        /\ EntriesOf(prison, g2) # {}
        /\ \E q \in Procs : h[q].g = g2 /\ h[q].pc # "idle"

\* the seven commands of the user-facing surface
UserCommands == {"create", "set_category", "close", "clear", "set_role", "arrest", "release"}

\* C18: every one of the seven commands that arrives from a guild as a
\* command-invoked event is handled by its own operation, and what the invoker is answered is
\* the result of that operation: no command is answered that it is not
\* implemented, or with an internal error for want of a route.
C18_CommandsDispatched ==
    [][(ops' = ops + 1 /\ result'.op \in UserCommands /\ result'.g \in Guilds)
        => result'.resp \notin {"NotImplemented", "InternalError"}]_vars

\* C19: in every step and for every guild, either the guild is cleared by a
\* clear that is acknowledged, or every lawsuit stored before the step is
\* stored after it in the same place, and is the same unless the step is the
\* ruling of a close that is acknowledged as successful, which gives a lawsuit
\* without verdict its verdict and changes no other field: a verdict that is
\* set is never changed or taken away, and no lawsuit is removed by itself.
C19_LawsuitOnlyClosedOnce ==
    [][\A g \in Guilds :
        LET s == StateOf(db, g)
            t == StateOf(db', g)
        IN \/ /\ result'.op = "clear"
              /\ result'.resp = "Cleared"
              /\ result'.g = g
              /\ t = DefaultState
           \/ /\ Len(t.lawsuits) >= Len(s.lawsuits)
              /\ \A i \in DOMAIN s.lawsuits :
                    \/ t.lawsuits[i] = s.lawsuits[i]
                    \/ /\ s.lawsuits[i].verdict = NoVerdict
                       /\ t.lawsuits[i].verdict # NoVerdict
                       /\ t.lawsuits[i] = [s.lawsuits[i] EXCEPT !.verdict = t.lawsuits[i].verdict]
                       /\ result'.op = "close"
                       /\ result'.resp = "Closed"
                       /\ result'.g = g
                       /\ result'.arg = s.lawsuits[i].court_room
                       /\ result'.verdict = t.lawsuits[i].verdict
                       /\ \E p \in Procs : Stepped(p, "rule_verdict")]_vars

\* a lawsuit has just been stored in a guild where another lawsuit was closed
\* before: that one is still there, with its verdict
C19_Witness ==
    /\ result.op = "create"
    /\ result.resp = "Created"
    /\ result.g \in DOMAIN db
    /\ \E i, j \in DOMAIN db[result.g].lawsuits :
        /\ i < j
        /\ db[result.g].lawsuits[j].court_room = result.arg
        /\ db[result.g].lawsuits[i].verdict # NoVerdict
        /\ <<result.g, db[result.g].lawsuits[i].court_room>> \in ruled

\* C20: a join reads the store and writes nothing to it, whatever it finds;
\* a join that finds the entry of the user, in a guild with a prison role, asks
\* the platform for the role whether or not the user holds it already, unless
\* the store refused the lookup; the request gives that one role when the
\* platform accepts and changes no role otherwise. So a join handled again
\* makes the same request and leaves the store and the roles as the first left
\* them.
C20_JoinIdempotent ==
    [][/\ (/\ ops' = ops + 1
           /\ result'.op = "join" \/ \E p \in Procs : Started(p, "find_prison_entry"))
            => /\ \A g \in Guilds : StateOf(db', g) = StateOf(db, g)
               /\ <<prison, holds, channels>>' = <<prison, holds, channels>>
       /\ \A p \in Procs :
            /\ (/\ Stepped(p, "find_prison_entry")
                /\ find_prison_entry(prison, h[p].g, h[p].user))
                => /\ ~StoreFailed => h'[p] = [h[p] EXCEPT !.pc = "join_role"]
                   /\ <<db, prison, holds, channels>>' = <<db, prison, holds, channels>>
            /\ Stepped(p, "join_role")
                => LET x == <<h[p].g, h[p].user, h[p].role>>
                   IN /\ result'.op = "join"
                      /\ result'.calls = {"add_role"}
                      /\ result'.resp \in {"Ok", "PlatformUnavailable"}
                      /\ <<db, prison, channels>>' = <<db, prison, channels>>
                      /\ holds' = IF result'.resp = "Ok" THEN holds \cup {x} ELSE holds
                      /\ h'[p] = Idle]_vars

\* a join of an arrested user was handled and the user holds the role; the
\* next join of the same user has found the entry and is about to ask for the
\* role again
C20_Witness ==
    /\ result = NoResult
    /\ \E p \in Procs :
        /\ h[p].pc = "join_role"
        /\ find_prison_entry(prison, h[p].g, h[p].user)
        /\ <<h[p].g, h[p].user, h[p].role>> \in holds
        /\ \A q \in Procs \ {p} : h[q].pc = "idle"

\* C21: in every reachable state every stored lawsuit is held in a room other
\* than the placeholder 0, and that room is among the court rooms of the same
\* guild state; so whenever the lookup of the active lawsuit of a room succeeds
\* on a guild state, the lookup of the room succeeds on it too, and a close that
\* is under way has found both.
C21_LawsuitRoomStored ==
    /\ \A g \in DOMAIN db :
        /\ \A i \in DOMAIN db[g].lawsuits :
            /\ db[g].lawsuits[i].court_room # NoId
            /\ \E j \in DOMAIN db[g].court_rooms :
                    db[g].court_rooms[j].channel_id = db[g].lawsuits[i].court_room
        /\ \A room \in DOMAIN channels \cup {NoId, CategoryOf(g), TextChannelOf(g)} :
            FindLawsuit(db[g], room) # 0 => FindRoom(db[g], room)
    /\ \A p \in Procs :
        h[p].pc = "rule_verdict"
            => /\ h[p].lawsuit.court_room = h[p].arg
               /\ h[p].arg # NoId

\* a close found the active lawsuit and the room in a guild that has two
\* lawsuits in two rooms
C21_Witness ==
    \E p \in Procs :
        /\ h[p].pc = "rule_verdict"
        /\ h[p].g \in DOMAIN db
        /\ Len(db[h[p].g].lawsuits) >= 2
        /\ FindLawsuit(db[h[p].g], h[p].arg) # 0
        /\ FindRoom(db[h[p].g], h[p].arg)
        /\ \E i \in DOMAIN db[h[p].g].lawsuits : db[h[p].g].lawsuits[i].court_room # h[p].arg

\* C22: whenever no handler is under way in a guild whose prison role is set,
\* after arrests, releases and joins that interleaved in any way and whose
\* platform calls were all accepted, a user holds the prison role exactly if
\* the user has a prison entry.
C22_FactEffectAgreeAtQuiescence ==
    (/\ \A p \in Procs : h[p].pc = "idle"
     /\ StateOf(db, 1).prison_role # NoId)
    => \A u \in Users :
        <<1, u, StateOf(db, 1).prison_role>> \in holds <=> find_prison_entry(prison, 1, u)

====
